---- MODULE Spec2Model ----
(***************************************************************************)
(* A model of the T564 pulse generator controller (src/T564.py).           *)
(*                                                                         *)
(*   - the framing of T564.write: one outbound frame per call, the reply   *)
(*     read byte by byte from the serial input buffer;                     *)
(*   - the controller's local mirrors of the frame and train registers,    *)
(*     the frame map and the four channels' cached settings, next to the   *)
(*     registers of the device the commands are sent to.                   *)
(*                                                                         *)
(* The code is Python 2 (str bytes, print_function import): a byte read    *)
(* from the port is a one-character str.                                   *)
(***************************************************************************)
EXTENDS Integers, Sequences, FiniteSets, TLC

VARIABLES
    wire,          \* bytes in the serial input buffer, not yet read by the host
    call,          \* the last T564.write call of the framer run
    dev,           \* the device: its registers, frame memory and channels
    frame_first,   \* T564._frame_first
    frame_last,    \* T564._frame_last
    frame_loops,   \* T564._frame_loops (the FC register value, not the loop count)
    train_count,   \* T564._train_count (the TC register value)
    train_space,   \* T564._train_space
    freq,          \* T564._freq
    status,        \* the four Channel._status dicts, by channel name
    frames,        \* T564.frames
    liveAtSave,    \* history: the settings that were live when frames[i] was saved
    sent,          \* the frames transmitted by the last operation, in order
    lastOp         \* the last operation: what was called and how it ended

vars == <<wire, call, dev, frame_first, frame_last, frame_loops, train_count,
          train_space, freq, status, frames, liveAtSave, sent, lastOp>>

framerVars == <<wire, call>>

ctlVars == <<dev, frame_first, frame_last, frame_loops, train_count,
             train_space, freq, status, frames, liveAtSave, sent, lastOp>>

-----------------------------------------------------------------------------
(* Bounds of the model.                                                    *)

\* Largest number of commands in one write call of the framer run.
MaxK == 2

\* Largest length of a reply body in the framer run.
MaxBodyLen == 2

-----------------------------------------------------------------------------
(* T564.write: framing.                                                    *)

SEMI == ";"
CR == "\r"
LF == "\n"

\* The two bytes the device sends after the last response.
EndMarker == <<CR, LF>>

\* Sequences over S of length at most n.
SeqUpTo(S, n) == UNION {[1..k -> S] : k \in 0..n}

\* Bytes a reply body is made of (the delimiter is not one of them).
BodyBytes == {"a", CR, LF}

Bodies == SeqUpTo(BodyBytes, MaxBodyLen)

\* Commands of the framer run, as strings of bytes.  The reading half of
\* write looks at their number only.
CommandSet == {<<"F", "A">>}

\* ";".join(commands)
RECURSIVE Join(_)
Join(commands) ==
    IF commands = <<>> THEN <<>>
    ELSE IF Len(commands) = 1 THEN Head(commands)
    ELSE Head(commands) \o <<SEMI>> \o Join(Tail(commands))

\* The frame written to the port: ";".join(commands)+";\r"
OutFrame(commands) == Join(commands) \o <<SEMI, CR>>

\* The device's reply to a frame: each body followed by the delimiter, then
\* the end marker.
RECURSIVE ReplyBodies(_)
ReplyBodies(bodies) ==
    IF bodies = <<>> THEN <<>>
    ELSE Head(bodies) \o <<SEMI>> \o ReplyBodies(Tail(bodies))

DeviceReply(bodies) == ReplyBodies(bodies) \o EndMarker

\* The reading loop without the reset of resp when a response is closed.
RECURSIVE ReadResponses_NoReset(_, _, _, _)
ReadResponses_NoReset(stream, K, responses, resp) ==
    IF ~(Len(responses) < K)
    THEN [responses |-> responses, rest |-> stream, blocked |-> FALSE]
    ELSE IF stream = <<>>
    THEN [responses |-> responses, rest |-> stream, blocked |-> TRUE]
    ELSE IF Head(stream) # SEMI
    THEN ReadResponses_NoReset(Tail(stream), K, responses, resp \o <<Head(stream)>>)
    ELSE ReadResponses_NoReset(Tail(stream), K, Append(responses, resp), resp)

\* The loop that reads the responses.  A read of an empty buffer returns ""
\* (the port is opened with timeout=0), which changes nothing: with no byte
\* left the loop polls forever.
RECURSIVE ReadResponses(_, _, _, _)
ReadResponses(stream, K, responses, resp) ==
    IF ~(Len(responses) < K)
    THEN [responses |-> responses, rest |-> stream, blocked |-> FALSE]
    ELSE IF stream = <<>>
    THEN [responses |-> responses, rest |-> stream, blocked |-> TRUE]
    ELSE IF Head(stream) # SEMI
    THEN ReadResponses(Tail(stream), K, responses, resp \o <<Head(stream)>>)
    ELSE ReadResponses(Tail(stream), K, Append(responses, resp), <<>>)

\* An exit test that stops after the first byte of the end marker.
ExtraDone_Short(extra) == extra = <<CR>>

\* The exit test of the loop that consumes the end marker.
ExtraDone(extra) == extra = EndMarker

\* The loop that consumes the end marker: bytes are appended to extra until
\* extra is exactly "\r\n".
RECURSIVE ConsumeExtra(_, _)
ConsumeExtra(stream, extra) ==
    IF ExtraDone(extra) THEN [rest |-> stream, blocked |-> FALSE]
    ELSE IF stream = <<>> THEN [rest |-> stream, blocked |-> TRUE]
    ELSE ConsumeExtra(Tail(stream), extra \o <<Head(stream)>>)

\* The reading half of write(*commands) on the bytes in the input buffer.
ReadReply(stream, K) ==
    LET r == ReadResponses(stream, K, <<>>, <<>>)
        e == ConsumeExtra(r.rest, <<>>)
    IN  IF r.blocked
        THEN [responses |-> r.responses, rest |-> r.rest, returned |-> FALSE]
        ELSE [responses |-> r.responses, rest |-> e.rest, returned |-> ~e.blocked]

\* No call is under way.  prior tells whether an earlier call was made on
\* the port.
\* raised tells whether the call raised: write has no raise statement.
NoCall == [made |-> FALSE, prior |-> FALSE, commands |-> <<>>, frame |-> <<>>,
           bodies |-> <<>>, responses |-> <<>>, returned |-> TRUE, consumed |-> 0,
           raised |-> FALSE]

\* write(*commands) with K >= 1 commands, answered by the device with one
\* body per command: the frame is written, the reply is read from the input
\* buffer.  A call that never returns leaves the program stuck in it.
FramerWrite ==
    /\ ~call.made
    /\ \E K \in 1..MaxK :
       \E commands \in [1..K -> CommandSet], bodies \in [1..K -> Bodies] :
          LET stream == wire \o DeviceReply(bodies)
              r == ReadReply(stream, K)
          IN  /\ wire' = r.rest
              /\ call' = [made |-> TRUE, prior |-> call.prior, commands |-> commands,
                          frame |-> OutFrame(commands), bodies |-> bodies,
                          responses |-> r.responses, returned |-> r.returned,
                          consumed |-> Len(stream) - Len(r.rest),
                          raised |-> FALSE]
    /\ UNCHANGED ctlVars

\* Commands as a caller may pass them: one of them holds the delimiter.
AnyCommandSet == {<<"F", "A">>, <<"F", "A", SEMI, "F", "B">>}

AnyBodies == SeqUpTo({"a"}, MaxBodyLen)

\* The number of delimiters in a string of bytes.
RECURSIVE CountSemi(_)
CountSemi(bytes) ==
    IF bytes = <<>> THEN 0
    ELSE (IF Head(bytes) = SEMI THEN 1 ELSE 0) + CountSemi(Tail(bytes))

\* The numbers of bodies the device may answer a frame with: one for each
\* command it finds in the frame, a command being what a delimiter ends.
\* Whether it answers the empty command of the frame ";\r" is not known.
AnswerCounts(frame) ==
    IF frame = <<SEMI, CR>> THEN {0, 1} ELSE {CountSemi(frame)}

\* write(*commands) with any tuple of commands, the empty one included.
\* The frame is written whatever the commands are; the reading loop waits
\* for len(commands) responses.
FramerWriteAny ==
    /\ ~call.made
    /\ \E K \in 0..MaxK :
       \E commands \in [1..K -> AnyCommandSet] :
       \E n \in AnswerCounts(OutFrame(commands)) :
       \E bodies \in [1..n -> AnyBodies] :
          LET stream == wire \o DeviceReply(bodies)
              r == ReadReply(stream, K)
          IN  /\ wire' = r.rest
              /\ call' = [made |-> TRUE, prior |-> call.prior, commands |-> commands,
                          frame |-> OutFrame(commands), bodies |-> bodies,
                          responses |-> r.responses, returned |-> r.returned,
                          consumed |-> Len(stream) - Len(r.rest),
                          raised |-> FALSE]
    /\ UNCHANGED ctlVars

\* The caller takes the list write returned; the bytes the call left in the
\* input buffer stay there for the next call.
FramerReturn ==
    /\ call.made
    /\ call.returned
    /\ call' = [NoCall EXCEPT !.prior = TRUE]
    /\ UNCHANGED wire
    /\ UNCHANGED ctlVars

-----------------------------------------------------------------------------
(* Numbers.  The train count goes up to 2^32, beyond the integers of the    *)
(* model checker: it is kept in two limbs, hi * 2^16 + lo with             *)
(* 0 <= lo < 2^16.  Python's own integers are unbounded.                   *)

BigBase == 2^16

Big(hi, lo) == [hi |-> hi, lo |-> lo]

\* a < b
BigLt(a, b) == a.hi < b.hi \/ (a.hi = b.hi /\ a.lo < b.lo)

\* a - 1
BigPred(a) == IF a.lo = 0 THEN Big(a.hi - 1, BigBase - 1) ELSE Big(a.hi, a.lo - 1)

\* a + 1
BigSucc(a) == IF a.lo = BigBase - 1 THEN Big(a.hi + 1, 0) ELSE Big(a.hi, a.lo + 1)

\* A command argument is a tuple of integers: none, one integer, or the two
\* limbs of a large one.
NoArg == <<>>
IntArg(n) == <<n>>
BigArg(b) == <<b.hi, b.lo>>

-----------------------------------------------------------------------------
(* Program constants.                                                      *)

FRAME_FOREVER == 65535

FRAME_MAX_LOOPS == 65534

FRAME_MAX_NUM == 8191

\* 10 s
TRAIN_MAX_SPACING == [q |-> 500 * 1000 * 1000, r |-> 0]

\* 2**32
TRAIN_MAX_PULSES == Big(BigBase, 0)

\* The startup frequency, 16 MHz, in hertz.
StartupFrequency == 16 * 1000 * 1000

Channels == {"A", "B", "C", "D"}

-----------------------------------------------------------------------------
(* Commands and the device.                                                *)

\* A command of the controller: a keyword, the channel it addresses ("" when
\* it addresses none) and its argument.
Cmd(k, a) == [cmd |-> k, chan |-> "", arg |-> a]

ChanCmd(c, k, a) == [cmd |-> k, chan |-> c, arg |-> a]

\* A time held by the controller: either a quantity with a unit, as parsed
\* from a status line (float(...) * ureg.s), or the bare magnitude in
\* nanoseconds a setter stores (its decorator strips the unit, also from a
\* quantity).  ns is the time in nanoseconds in both.
Quantity(ns) == [ns |-> ns, unit |-> "s"]

Bare(ns) == [ns |-> ns, unit |-> ""]

\* A time that may exceed a 32-bit count of nanoseconds: q periods of 20 ns
\* and r further nanoseconds, 0 <= r < 20.
Time(q, r) == [q |-> q, r |-> r]

NsTime(ns) == Time(ns \div 20, ns % 20)

TimeLt(a, b) == a.q < b.q \/ (a.q = b.q /\ a.r < b.r)

\* max(a, b) and min(a, b) of Python on two times.
TimeMax(a, b) == IF TimeLt(a, b) THEN b ELSE a

TimeMin(a, b) == IF TimeLt(b, a) THEN b ELSE a

\* The magnitude of T564._train_space: the number whole + frac20 / 20.
Mag(whole, frac20) == [whole |-> whole, frac20 |-> frac20]

\* t.to(ureg.ns) / 20: the magnitude of a time in nanoseconds, divided by 20
\* (true division).
TimeOver20(t) == Mag(t.q, t.r)

\* "{}".format(m) as a command argument: the integral part of the float and
\* its fractional part in twentieths.
FloatArg(m) == <<m.whole, m.frac20>>

\* A frequency in hertz, the number num / den.
Hz(n) == [num |-> n, den |-> 1]

\* 1 / val
Inverse(val) == [num |-> 1, den |-> val]

\* The number of binary digits of n >= 0.
RECURSIVE BitLength(_)
BitLength(n) == IF n = 0 THEN 0 ELSE 1 + BitLength(n \div 2)

\* The float a true division gives is the quotient rounded to 53 significant
\* binary digits, ties to even.  The digits that follow the integral part are
\* developed one by one (r is the remainder, 0 <= r < den), sig counts the
\* significant digits so far and odd tells whether the last one is 1; the
\* result is the sign of the rounding error: 1 when the float is above the
\* quotient, -1 when it is below, 0 when it is the quotient.
RECURSIVE FloatError(_, _, _, _)
FloatError(r, den, sig, odd) ==
    IF r = 0 THEN 0
    ELSE IF sig = 53
    THEN IF 2 * r > den THEN 1
         ELSE IF 2 * r < den THEN -1
         ELSE IF odd THEN 1 ELSE -1
    ELSE LET bit == 2 * r >= den
             rest == IF bit THEN 2 * r - den ELSE 2 * r
         IN  IF sig = 0 /\ ~bit
             THEN FloatError(rest, den, 0, FALSE)
             ELSE FloatError(rest, den, sig + 1, bit)

\* "{:f}".format(f) as a command argument, f being the float of the number
\* f.num / f.den: the integral part and the six decimals printed.  The
\* float's exact value is rounded to six decimals, ties to even; it differs
\* from the quotient by less than any distance of the quotient to a rounding
\* boundary, unless the quotient lies on the boundary: the side the float
\* lies on then decides.
FixedArg(f) ==
    LET whole == f.num \div f.den
        rem == f.num % f.den
        six == (rem * 1000 * 1000) \div f.den
        left == (rem * 1000 * 1000) % f.den
        err == FloatError(rem, f.den, BitLength(whole), whole % 2 = 1)
        up == \/ 2 * left > f.den
              \/ 2 * left = f.den /\ (err = 1 \/ (err = 0 /\ six % 2 = 1))
        dec == IF up THEN six + 1 ELSE six
    IN  IF dec = 1000 * 1000 THEN <<whole + 1, 0>> ELSE <<whole, dec>>

\* The settings the device keeps in nonvolatile memory: its registers and
\* the settings of its channels.
Settings(d) ==
    [FA |-> d.FA, FB |-> d.FB, FC |-> d.FC, TC |-> d.TC, TS |-> d.TS,
     AU |-> d.AU, SY |-> d.SY, chan |-> d.chan]

\* The device with its settings replaced by the saved ones.
Recalled(d) ==
    [d EXCEPT !.FA = d.saved.FA, !.FB = d.saved.FB, !.FC = d.saved.FC,
              !.TC = d.saved.TC, !.TS = d.saved.TS, !.AU = d.saved.AU,
              !.SY = d.saved.SY, !.chan = d.saved.chan]

\* The settings of the device before the first connection, which are also
\* the ones its nonvolatile memory then holds.
PowerOnSettings ==
    [FA |-> 0, FB |-> 0, FC |-> 0, TC |-> Big(0, 0), TS |-> 50, AU |-> 0,
     SY |-> <<0, 0>>,
     chan |-> [c \in Channels |->
                 [polarity |-> TRUE, enabled |-> TRUE, delay |-> 0, width |-> 2000]]]

\* What RZ does to the frame registers FA, FB and FC besides emptying the
\* frame memory: it resets them to their power-on values (TRUE) or keeps
\* them (FALSE).  The comment at the call in __init__ reads "Reset all
\* frame variables"; the repository holds no device code, so either may be
\* the case.
RzResets == BOOLEAN

\* The device executes one command.  It accepts every write: a register
\* write sets the register, RZ resets the frame memory and, when resets
\* tells so, the frame registers, FR n stores the active channel
\* configuration into frame n, FR GO starts the frame loop and FR OF stops
\* it, SA saves the settings to nonvolatile memory and RE loads the saved
\* ones.  A query changes nothing.
DevStep(d, c, resets) ==
    IF c.arg = NoArg
       /\ c.cmd \in {"FA", "FB", "FC", "TC", "TS", "AU", "S", "VE", "TR_SY", "FR"}
    THEN d
    ELSE CASE c.cmd = "AU" -> [d EXCEPT !.AU = c.arg[1]]
           [] c.cmd = "SY" -> [d EXCEPT !.SY = c.arg]
           [] c.cmd = "FA" -> [d EXCEPT !.FA = c.arg[1]]
           [] c.cmd = "FB" -> [d EXCEPT !.FB = c.arg[1]]
           [] c.cmd = "FC" -> [d EXCEPT !.FC = c.arg[1]]
           [] c.cmd = "TC" -> [d EXCEPT !.TC = Big(c.arg[1], c.arg[2])]
           [] c.cmd = "TS" -> [d EXCEPT !.TS = c.arg[1]]
           [] c.cmd = "RZ" ->
                IF resets
                THEN [d EXCEPT !.frames = <<>>, !.FA = PowerOnSettings.FA,
                                !.FB = PowerOnSettings.FB, !.FC = PowerOnSettings.FC]
                ELSE [d EXCEPT !.frames = <<>>]
           [] c.cmd = "SA" -> [d EXCEPT !.saved = Settings(d)]
           [] c.cmd = "RE" -> Recalled(d)
           [] c.cmd = "FR" ->
                [d EXCEPT !.frames =
                    [i \in (DOMAIN d.frames) \cup {c.arg[1]} |->
                        IF i = c.arg[1] THEN d.chan ELSE d.frames[i]]]
           [] c.cmd = "FR_GO" -> [d EXCEPT !.engine = "GO"]
           [] c.cmd = "FR_OF" -> [d EXCEPT !.engine = "OFF"]
           [] c.cmd = "S_ON" -> [d EXCEPT !.chan[c.chan].enabled = TRUE]
           [] c.cmd = "S_OF" -> [d EXCEPT !.chan[c.chan].enabled = FALSE]
           [] c.cmd = "S_PO" -> [d EXCEPT !.chan[c.chan].polarity = TRUE]
           [] c.cmd = "S_NE" -> [d EXCEPT !.chan[c.chan].polarity = FALSE]
           [] c.cmd = "D" -> [d EXCEPT !.chan[c.chan].delay = c.arg[1]]
           [] c.cmd = "W" -> [d EXCEPT !.chan[c.chan].width = c.arg[1]]
           [] OTHER -> d

\* The device executes the commands of one frame, in order.
RECURSIVE DevRun(_, _, _)
DevRun(d, commands, resets) ==
    IF commands = <<>> THEN d
    ELSE DevRun(DevStep(d, Head(commands), resets), Tail(commands), resets)

\* The device executes a sequence of frames.
RECURSIVE DevRunFrames(_, _, _)
DevRunFrames(d, fs, resets) ==
    IF fs = <<>> THEN d
    ELSE DevRunFrames(DevRun(d, Head(fs), resets), Tail(fs), resets)

\* The device as it is before the first connection.
DevPowerOn ==
    [FA |-> PowerOnSettings.FA, FB |-> PowerOnSettings.FB, FC |-> PowerOnSettings.FC,
     TC |-> PowerOnSettings.TC, TS |-> PowerOnSettings.TS, AU |-> PowerOnSettings.AU,
     SY |-> PowerOnSettings.SY,
     frames |-> <<>>,
     engine |-> "OFF",
     chan |-> PowerOnSettings.chan,
     saved |-> PowerOnSettings]

-----------------------------------------------------------------------------
(* Bounds and inputs of the controller runs.                               *)

\* Largest number of frames kept in the local frame map.
MaxFrames == 2

\* Values given to the frame_first setter.
FirstInputs == {0, 1, FRAME_MAX_NUM - 1}

\* Values given to the frame_last setter.
LastInputs == {0, 1, 2}

\* Frame numbers given explicitly to frame_save.
SaveInputs == {-1, 0, 1, FRAME_MAX_NUM - 1, FRAME_MAX_NUM}

\* Values given to the frame_loops setter.
LoopInputs == {-1, 0, 1, 2, 3, FRAME_MAX_LOOPS, FRAME_MAX_LOOPS + 1, FRAME_MAX_LOOPS + 2}

\* Values given to the train_count setter: -1 .. 3, 2^32 - 1, 2^32, 2^32 + 1.
CountInputs ==
    {Big(-1, BigBase - 1), Big(0, 0), Big(0, 1), Big(0, 2), Big(0, 3),
     Big(BigBase - 1, BigBase - 1), Big(BigBase, 0), Big(BigBase, 1)}

\* The channels whose setters are called, and the values they are given.
ChanInputs == {"A"}

\* A value given to the polarity setter: a str, held as the sequence of its
\* characters, or another object, of which the setter takes the truth value.
StrVal(s) == [isstr |-> TRUE, s |-> s, truth |-> FALSE]

ObjVal(t) == [isstr |-> FALSE, s |-> <<>>, truth |-> t]

\* "NEG", "Po", "high", True, False
PolarityInputs ==
    {StrVal(<<"N", "E", "G">>), StrVal(<<"P", "o">>),
     StrVal(<<"h", "i", "g", "h">>), ObjVal(TRUE), ObjVal(FALSE)}

DelayInputs == {20}

WidthInputs == {300}

\* The channels set up before a pulse train, and the delays and widths (ns)
\* they are given: A is delayed by 10 or 20 ns, B by 100 ns.
TrainChans == {"A", "B"}

TrainDelaysA == {10, 20}

TrainDelaysB == {100}

TrainWidths == {500}

\* Values given to the train_spacing setter: 100 ns, 590 ns, 1 us, 20 s.
SpacingInputs ==
    {NsTime(100), NsTime(590), NsTime(1000), Time(1000 * 1000 * 1000, 0)}

\* Values given to the autoinstall setter: integers and strings.
AuInt(n) == [isstr |-> FALSE, s |-> "", n |-> n]

AuStr(s) == [isstr |-> TRUE, s |-> s, n |-> 0]

AutoinstallInputs ==
    {AuInt(0), AuInt(2), AuInt(3), AuStr("off"), AuStr("install"), AuStr("QUEUE")}

\* Values given to the frequency setter, in hertz: 1, 8, 16 and 20 MHz.
FrequencyInputs == {1000 * 1000, 8 * 1000 * 1000, StartupFrequency, 20 * 1000 * 1000}

\* Values given to the period setter, in nanoseconds.
PeriodInputs == {0, 50, 63, 100, 128, 640, 1000, 2000 * 1000}

\* The largest TS register value read back by a construction of the
\* pulse-train run.
MaxReadTicks == 1000

\* Delays and widths (ns) given to channel A before a short train spacing is
\* set: zero is one of them.
ZeroDelays == {0, 20}

ZeroWidths == {0, 300}

\* Short values given to the train_spacing setter: 100 ns, 1 us, 3 us.
ShortSpacings == {NsTime(100), NsTime(1000), NsTime(3000)}

-----------------------------------------------------------------------------
(* The controller: getters and the pure parts of the setters.              *)

\* The device's answer to a channel's status query: the status line of the
\* channel's settings dc, or the error sentinel "??".
StatusLine(dc) == [error |-> FALSE, line |-> dc]

ErrorSentinel == [error |-> TRUE, line |-> <<>>]

\* Channel.get_status on the answer to the status query: the status line
\* parsed, or RuntimeError raised when the answer is the sentinel.
ParseStatus(response) ==
    IF ~response.error
    THEN [raised |-> FALSE,
          status |-> [polarity |-> response.line.polarity,
                      enabled |-> response.line.enabled,
                      delay |-> Quantity(response.line.delay),
                      width |-> Quantity(response.line.width)]]
    ELSE [raised |-> TRUE, status |-> <<>>]

\* The frame_loops getter.
FrameLoopsGet(reg) == IF reg = FRAME_FOREVER THEN 0 ELSE reg + 1

\* The frame_loops setter: whether num is accepted.
LoopsAccepted(num) == ~(num < 0) /\ (num = 0 \/ num <= FRAME_MAX_LOOPS + 1)

\* The frame_loops setter: the register value stored and transmitted.
LoopsRegister_NoOffset(num) == IF num = 0 THEN FRAME_FOREVER ELSE num

LoopsRegister(num) == IF num = 0 THEN FRAME_FOREVER ELSE num - 1

\* The train_count getter.
TrainCountGet(reg) == BigSucc(reg)

\* The train_count setter: whether num is accepted.
CountAccepted(num) == ~BigLt(num, Big(0, 1)) /\ ~BigLt(TRAIN_MAX_PULSES, num)

\* The train_count setter: the register value stored and transmitted.
CountRegister_NoOffset(num) == num

CountRegister(num) == BigPred(num)

\* The frame_last setter: whether f is rejected, given the value read as
\* frame_first and the number of saved frames.
LastRejected_Strict(f, first, count) == f < first /\ count > 1

LastRejected(f, first, count) == f <= first /\ count > 1

\* frame_save: whether an explicitly given frame number is rejected.
SaveRejected(frame_num) == (frame_num >= FRAME_MAX_NUM) \/ (frame_num < 0)

\* The value frame_save stores under a frame number: a dict whose four
\* entries are the channels' own _status dicts (Channel.status returns the
\* dict itself), named here by the channel they belong to.
StatusRefs == [c \in Channels |-> c]

\* What frames[i] reads as: the dicts it refers to, as they are now.
FrameSnapshot(i) == [c \in Channels |-> status[frames[i][c]]]

\* The number of saved frames, len(self.frames).
FrameCount == Cardinality(DOMAIN frames)

\* f with key k set to v.
Put(f, k, v) == [i \in (DOMAIN f) \cup {k} |-> IF i = k THEN v ELSE f[i]]

Op(name, arg, raised) ==
    [op |-> name, arg |-> arg, raised |-> raised,
     preFirst |-> frame_first, preLast |-> frame_last, preCount |-> FrameCount]

-----------------------------------------------------------------------------
(* The controller's operations.  Each sends its frames to the device,      *)
(* which executes them before the operation returns.                       *)

\* The last operation transmits the frames fs, and the device executes them.
TransmitReset(fs, resets) ==
    /\ sent' = fs
    /\ dev' = DevRunFrames(dev, fs, resets)

\* The same for frames that hold no RZ: what RZ does plays no part.
Transmit(fs) == TransmitReset(fs, FALSE)

ChannelOrder == <<"A", "B", "C", "D">>

\* The frames T564.__init__ transmits, in order.
ConnectFrames ==
    << <<Cmd("VE", IntArg(0))>>,
       <<Cmd("AU", IntArg(1))>>,
       <<Cmd("SY", FixedArg(Hz(StartupFrequency))), Cmd("TR_SY", NoArg)>> >>
    \o [i \in 1..4 |-> <<ChanCmd(ChannelOrder[i], "S", NoArg)>>]
    \o [i \in 1..4 |-> <<ChanCmd(ChannelOrder[i], "S_OF", NoArg)>>]
    \o << <<Cmd("FA", NoArg)>>, <<Cmd("FB", NoArg)>>, <<Cmd("FC", NoArg)>>,
          <<Cmd("RZ", NoArg)>>,
          <<Cmd("TC", NoArg)>>, <<Cmd("TS", NoArg)>> >>

\* The states the device goes through while it executes the frames fs: the
\* k-th is the one it is in when frame k arrives, the last the one it ends in.
RECURSIVE DevTrace(_, _, _)
DevTrace(d, fs, resets) ==
    IF fs = <<>> THEN <<d>>
    ELSE <<d>> \o DevTrace(DevRun(d, Head(fs), resets), Tail(fs), resets)

\* The place of the query q among the frames of __init__.
QueryPlace(q) == CHOOSE i \in DOMAIN ConnectFrames : ConnectFrames[i] = <<q>>

\* No channel: every status query of a construction is answered with a
\* status line.
NoChannel == ""

\* The answer to the status query of channel c during a construction in
\* which the device refuses the query of channel refused, the device being
\* in state d when the query arrives.
StatusAnswer(d, c, refused) ==
    IF c = refused THEN ErrorSentinel ELSE StatusLine(d.chan[c])

\* The controller after T564.__init__ on device d: every mirror holds what
\* the device answered to its read-back when it was sent, every channel is
\* disabled.  When the status query of channel refused is answered with the
\* sentinel, Channel.__init__ raises out of T564.__init__: the frames up to
\* that query have been sent and no object is constructed.
Constructed(d, refused, resets) ==
    LET t == DevTrace(d, ConnectFrames, resets)
        parsed == [c \in Channels |->
                     ParseStatus(StatusAnswer(t[QueryPlace(ChanCmd(c, "S", NoArg))],
                                              c, refused))]
    IN  IF \E c \in Channels : parsed[c].raised
        THEN [raised |-> TRUE,
              sent |-> SubSeq(ConnectFrames, 1,
                              QueryPlace(ChanCmd(refused, "S", NoArg))),
              dev |-> t[QueryPlace(ChanCmd(refused, "S", NoArg)) + 1]]
        ELSE
        [raised |-> FALSE,
         sent |-> ConnectFrames,
         dev |-> t[Len(t)],
         frame_first |-> t[QueryPlace(Cmd("FA", NoArg))].FA,
         frame_last |-> t[QueryPlace(Cmd("FB", NoArg))].FB,
         frame_loops |-> t[QueryPlace(Cmd("FC", NoArg))].FC,
         train_count |-> t[QueryPlace(Cmd("TC", NoArg))].TC,
         train_space |-> Mag(t[QueryPlace(Cmd("TS", NoArg))].TS * 20, 0),
         freq |-> Hz(StartupFrequency),
         status |-> [c \in Channels |-> [parsed[c].status EXCEPT !.enabled = FALSE]]]

Init ==
    \E resets \in RzResets :
        LET k == Constructed(DevPowerOn, NoChannel, resets)
        IN  /\ wire = <<>>
            /\ call = NoCall
            /\ dev = k.dev
            /\ frame_first = k.frame_first
            /\ frame_last = k.frame_last
            /\ frame_loops = k.frame_loops
            /\ train_count = k.train_count
            /\ train_space = k.train_space
            /\ freq = k.freq
            /\ status = k.status
            /\ frames = <<>>
            /\ liveAtSave = <<>>
            /\ sent = ConnectFrames
            /\ lastOp = [op |-> "connect", arg |-> NoArg, raised |-> FALSE,
                         preFirst |-> 0, preLast |-> 0, preCount |-> 0]

\* A new T564 object is constructed on the same device, which answers the
\* status queries as refusals allows: each with a status line (NoChannel),
\* or the query of one channel with the sentinel.  A construction that
\* raises leaves the program with the object it had.
ConnectAnswered(refusals) ==
    \E refused \in refusals, resets \in RzResets :
        LET k == Constructed(dev, refused, resets)
        IN  /\ dev' = k.dev
            /\ sent' = k.sent
            /\ IF k.raised
               THEN /\ UNCHANGED <<frame_first, frame_last, frame_loops, train_count,
                                   train_space, freq, status, frames, liveAtSave>>
                    /\ lastOp' = Op("connect", <<refused>>, TRUE)
               ELSE /\ frame_first' = k.frame_first
                    /\ frame_last' = k.frame_last
                    /\ frame_loops' = k.frame_loops
                    /\ train_count' = k.train_count
                    /\ train_space' = k.train_space
                    /\ freq' = k.freq
                    /\ status' = k.status
                    /\ frames' = <<>>
                    /\ liveAtSave' = <<>>
                    /\ lastOp' = Op("connect", NoArg, FALSE)
            /\ UNCHANGED framerVars

\* Construction on a device that answers every status query.
Connect == ConnectAnswered({NoChannel})

\* Construction on a device that may refuse a status query.
TryConnect == ConnectAnswered({NoChannel} \cup Channels)

\* frame_first = f
SetFrameFirst ==
    \E f \in FirstInputs :
        /\ Transmit(<< <<Cmd("FA", IntArg(f))>> >>)
        /\ lastOp' = Op("set_first", IntArg(f), FALSE)
        /\ UNCHANGED <<frame_first, frame_last, frame_loops, train_count, train_space,
                       freq, status, frames, liveAtSave>>
        /\ UNCHANGED framerVars

\* frame_last = f
SetFrameLast ==
    \E f \in LastInputs :
        /\ IF LastRejected(f, frame_first, FrameCount)
           THEN /\ sent' = <<>>
                /\ dev' = dev
                /\ lastOp' = Op("set_last", IntArg(f), TRUE)
           ELSE /\ Transmit(<< <<Cmd("FB", IntArg(f))>> >>)
                /\ lastOp' = Op("set_last", IntArg(f), FALSE)
        /\ UNCHANGED <<frame_first, frame_last, frame_loops, train_count, train_space,
                       freq, status, frames, liveAtSave>>
        /\ UNCHANGED framerVars

\* frame_clear() without the reset of the local frame map.
FrameClear_KeepsFrames ==
    /\ UNCHANGED <<frames, liveAtSave>>
    /\ \E resets \in RzResets : TransmitReset(<< <<Cmd("RZ", NoArg)>> >>, resets)
    /\ lastOp' = Op("clear", NoArg, FALSE)
    /\ UNCHANGED <<frame_first, frame_last, frame_loops, train_count, train_space,
                   freq, status>>
    /\ UNCHANGED framerVars

\* frame_clear()
FrameClear ==
    /\ frames' = <<>>
    /\ liveAtSave' = <<>>
    /\ \E resets \in RzResets : TransmitReset(<< <<Cmd("RZ", NoArg)>> >>, resets)
    /\ lastOp' = Op("clear", NoArg, FALSE)
    /\ UNCHANGED <<frame_first, frame_last, frame_loops, train_count, train_space,
                   freq, status>>
    /\ UNCHANGED framerVars

\* frame_save(frame_num) with the frame number given.
FrameSave ==
    \E frame_num \in SaveInputs :
        /\ SaveRejected(frame_num) \/ frame_num \in DOMAIN frames \/ FrameCount < MaxFrames
        /\ IF SaveRejected(frame_num)
           THEN /\ sent' = <<>>
                /\ dev' = dev
                /\ UNCHANGED <<frames, liveAtSave>>
                /\ lastOp' = Op("save", IntArg(frame_num), TRUE)
           ELSE /\ frames' = Put(frames, frame_num, StatusRefs)
                /\ liveAtSave' = Put(liveAtSave, frame_num, status)
                /\ Transmit(<< <<Cmd("FR", IntArg(frame_num))>> >>)
                /\ lastOp' = Op("save", IntArg(frame_num), FALSE)
        /\ UNCHANGED <<frame_first, frame_last, frame_loops, train_count, train_space,
                       freq, status>>
        /\ UNCHANGED framerVars

\* frame_save() with the frame number omitted: the next frame number is
\* frame_first + len(frames), frame_last is set to it, the frame is stored.
FrameSaveAuto ==
    LET frame_num == frame_first + FrameCount
    IN  /\ \/ LastRejected(frame_num, frame_first, FrameCount)
           \/ frame_num \in DOMAIN frames
           \/ FrameCount < MaxFrames
        /\ IF LastRejected(frame_num, frame_first, FrameCount)
           THEN /\ sent' = <<>>
                /\ dev' = dev
                /\ UNCHANGED <<frames, liveAtSave>>
                /\ lastOp' = Op("save_auto", IntArg(frame_num), TRUE)
           ELSE /\ frames' = Put(frames, frame_num, StatusRefs)
                /\ liveAtSave' = Put(liveAtSave, frame_num, status)
                /\ Transmit(<< <<Cmd("FB", IntArg(frame_num))>>,
                               <<Cmd("FR", IntArg(frame_num))>> >>)
                /\ lastOp' = Op("save_auto", IntArg(frame_num), FALSE)
        /\ UNCHANGED <<frame_first, frame_last, frame_loops, train_count, train_space,
                       freq, status>>
        /\ UNCHANGED framerVars

\* frame_loops = num
SetFrameLoops ==
    \E num \in LoopInputs :
        /\ IF LoopsAccepted(num)
           THEN /\ frame_loops' = LoopsRegister(num)
                /\ Transmit(<< <<Cmd("FC", IntArg(LoopsRegister(num)))>> >>)
                /\ lastOp' = Op("set_loops", IntArg(num), FALSE)
           ELSE /\ frame_loops' = frame_loops
                /\ sent' = <<>>
                /\ dev' = dev
                /\ lastOp' = Op("set_loops", IntArg(num), TRUE)
        /\ UNCHANGED <<frame_first, frame_last, train_count, train_space,
                       freq, status, frames, liveAtSave>>
        /\ UNCHANGED framerVars

\* train_count = num
SetTrainCount ==
    \E num \in CountInputs :
        /\ IF CountAccepted(num)
           THEN /\ train_count' = CountRegister(num)
                /\ Transmit(<< <<Cmd("TC", BigArg(CountRegister(num)))>> >>)
                /\ lastOp' = Op("set_count", BigArg(num), FALSE)
           ELSE /\ train_count' = train_count
                /\ sent' = <<>>
                /\ dev' = dev
                /\ lastOp' = Op("set_count", BigArg(num), TRUE)
        /\ UNCHANGED <<frame_first, frame_last, frame_loops, train_space,
                       freq, status, frames, liveAtSave>>
        /\ UNCHANGED framerVars

\* The autoinstall setter: the mode number transmitted, -1 when val is
\* rejected.
AutoinstallMode_Default(val) ==
    CASE (~val.isstr /\ val.n = 0) \/ (val.isstr /\ val.s = "off") -> 0
      [] (~val.isstr /\ val.n = 1) \/ (val.isstr /\ val.s = "install") -> 1
      [] (~val.isstr /\ val.n = 2) \/ (val.isstr /\ val.s = "queue") -> 2
      [] OTHER -> 1

AutoinstallMode(val) ==
    CASE (~val.isstr /\ val.n = 0) \/ (val.isstr /\ val.s = "off") -> 0
      [] (~val.isstr /\ val.n = 1) \/ (val.isstr /\ val.s = "install") -> 1
      [] (~val.isstr /\ val.n = 2) \/ (val.isstr /\ val.s = "queue") -> 2
      [] OTHER -> -1

\* autoinstall = val
SetAutoinstall ==
    \E val \in AutoinstallInputs :
        /\ IF AutoinstallMode(val) = -1
           THEN /\ sent' = <<>>
                /\ dev' = dev
                /\ lastOp' = Op("set_autoinstall", <<val>>, TRUE)
           ELSE /\ Transmit(<< <<Cmd("AU", IntArg(AutoinstallMode(val)))>> >>)
                /\ lastOp' = Op("set_autoinstall", <<val>>, FALSE)
        /\ UNCHANGED <<frame_first, frame_last, frame_loops, train_count, train_space,
                       freq, status, frames, liveAtSave>>
        /\ UNCHANGED framerVars

\* frequency = val, val in hertz
SetFrequency ==
    \E val \in FrequencyInputs :
        /\ freq' = Hz(val)
        /\ Transmit(<< <<Cmd("SY", FixedArg(Hz(val))), Cmd("TR_SY", NoArg)>> >>)
        /\ lastOp' = Op("set_frequency", IntArg(val), FALSE)
        /\ UNCHANGED <<frame_first, frame_last, frame_loops, train_count, train_space,
                       status, frames, liveAtSave>>
        /\ UNCHANGED framerVars

\* period = val, val in nanoseconds: self.frequency = 1 / val.  The
\* division raises ZeroDivisionError for 0.
SetPeriod ==
    \E val \in PeriodInputs :
        /\ IF val = 0
           THEN /\ freq' = freq
                /\ sent' = <<>>
                /\ dev' = dev
                /\ lastOp' = Op("set_period", IntArg(val), TRUE)
           ELSE /\ freq' = Inverse(val)
                /\ Transmit(<< <<Cmd("SY", FixedArg(Inverse(val))),
                                 Cmd("TR_SY", NoArg)>> >>)
                /\ lastOp' = Op("set_period", IntArg(val), FALSE)
        /\ UNCHANGED <<frame_first, frame_last, frame_loops, train_count, train_space,
                       status, frames, liveAtSave>>
        /\ UNCHANGED framerVars

\* save(): the device keeps its current settings in nonvolatile memory.
Save ==
    /\ Transmit(<< <<Cmd("SA", NoArg)>> >>)
    /\ lastOp' = Op("save_settings", NoArg, FALSE)
    /\ UNCHANGED <<frame_first, frame_last, frame_loops, train_count, train_space,
                   freq, status, frames, liveAtSave>>
    /\ UNCHANGED framerVars

\* recall(): the device loads the settings saved in nonvolatile memory.  No
\* mirror and no cache of the controller is touched.
Recall ==
    /\ Transmit(<< <<Cmd("RE", NoArg)>> >>)
    /\ lastOp' = Op("recall", NoArg, FALSE)
    /\ UNCHANGED <<frame_first, frame_last, frame_loops, train_count, train_space,
                   freq, status, frames, liveAtSave>>
    /\ UNCHANGED framerVars

\* frame_start()
FrameStart ==
    /\ Transmit(<< <<Cmd("FR_GO", NoArg)>> >>)
    /\ lastOp' = Op("start", NoArg, FALSE)
    /\ UNCHANGED <<frame_first, frame_last, frame_loops, train_count, train_space,
                   freq, status, frames, liveAtSave>>
    /\ UNCHANGED framerVars

\* frame_stop()
FrameStop ==
    /\ Transmit(<< <<Cmd("FR_OF", NoArg)>> >>)
    /\ lastOp' = Op("stop", NoArg, FALSE)
    /\ UNCHANGED <<frame_first, frame_last, frame_loops, train_count, train_space,
                   freq, status, frames, liveAtSave>>
    /\ UNCHANGED framerVars

\* The device's answers to the frame-state query: the token of its state,
\* OFF when the loop is off, DONE when it has run through, another token
\* while it runs, with or without whitespace around it.
FrameStateReplies(engine) ==
    {<<engine>>, <<engine, " ">>, <<"\t", engine, CR, LF>>}

\* The byte 0x0B (vertical tab), which has no escape of its own here.
VT == "\\x0b"

\* The characters str.strip() removes: blank, tab, line feed, carriage
\* return, vertical tab, form feed.
Whitespace == {" ", "\t", LF, CR, VT, "\f"}

\* str.strip() on an answer.
RECURSIVE StripLeft(_)
StripLeft(r) == IF r # <<>> /\ Head(r) \in Whitespace THEN StripLeft(Tail(r)) ELSE r

RECURSIVE StripRight(_)
StripRight(r) ==
    IF r # <<>> /\ r[Len(r)] \in Whitespace
    THEN StripRight(SubSeq(r, 1, Len(r) - 1))
    ELSE r

Strip(r) == StripRight(StripLeft(r))

\* frame_looping(): the value returned for the answer r.
Looping_OffOnly(r) == Strip(r) \notin {<<"OFF">>}

Looping(r) == Strip(r) \notin {<<"OFF">>, <<"DONE">>}

\* frame_looping()
FrameLooping ==
    \E r \in FrameStateReplies(dev.engine) :
        /\ Transmit(<< <<Cmd("FR", NoArg)>> >>)
        /\ lastOp' = Op("looping", <<dev.engine, Looping(r)>>, FALSE)
        /\ UNCHANGED <<frame_first, frame_last, frame_loops, train_count, train_space,
                       freq, status, frames, liveAtSave>>
        /\ UNCHANGED framerVars

\* The device ends a frame loop that was started with a finite loop count.
DeviceFinish ==
    /\ dev.engine = "GO"
    /\ dev.FC # FRAME_FOREVER
    /\ dev' = [dev EXCEPT !.engine = "DONE"]
    /\ UNCHANGED <<frame_first, frame_last, frame_loops, train_count, train_space,
                   freq, status, frames, liveAtSave, sent, lastOp>>
    /\ UNCHANGED framerVars

\* The program is in the loop "while self.frame_looping(): pass" that
\* follows frame_start(): it has started the frames and no poll has
\* returned False yet.
InPollLoop ==
    \/ lastOp.op = "start"
    \/ lastOp.op = "looping" /\ lastOp.arg[2]

-----------------------------------------------------------------------------
(* The channel setters.  Each writes the channel's own _status dict in     *)
(* place and then transmits one command.                                   *)

\* The upper-case letters and, at the same places, their lower-case forms.
UpperCase ==
    <<"A", "B", "C", "D", "E", "F", "G", "H", "I", "J", "K", "L", "M",
      "N", "O", "P", "Q", "R", "S", "T", "U", "V", "W", "X", "Y", "Z">>

LowerCase ==
    <<"a", "b", "c", "d", "e", "f", "g", "h", "i", "j", "k", "l", "m",
      "n", "o", "p", "q", "r", "s", "t", "u", "v", "w", "x", "y", "z">>

\* One character lowered: an upper-case letter gives its lower-case form,
\* any other character is kept.
LowerChar(ch) ==
    IF \E i \in DOMAIN UpperCase : UpperCase[i] = ch
    THEN LowerCase[CHOOSE i \in DOMAIN UpperCase : UpperCase[i] = ch]
    ELSE ch

\* str.lower(): every character of s lowered.
Lower(s) == [i \in DOMAIN s |-> LowerChar(s[i])]

\* The polarity setter: whether val is rejected.
PolarityRejected(val) ==
    /\ val.isstr
    /\ Lower(val.s) \notin {<<"p", "o">>, <<"p", "o", "s">>, <<"n", "e">>, <<"n", "e", "g">>}

\* The polarity setter: whether an accepted val means active-high.
ActiveHigh(val) ==
    IF val.isstr THEN Lower(val.s) \in {<<"p", "o">>, <<"p", "o", "s">>} ELSE val.truth

ChannelUnchanged ==
    UNCHANGED <<frame_first, frame_last, frame_loops, train_count, train_space,
                freq, frames, liveAtSave>>

\* The device answers a setter's frame: it executes the command, or it
\* answers with the error sentinel "??" and ignores it.  The setters do not
\* look at the answer, and none of them sends RZ.
TransmitAnswered(fs, ok) ==
    /\ sent' = fs
    /\ dev' = IF ok THEN DevRunFrames(dev, fs, FALSE) ELSE dev

\* chan.enabled = val, for a channel of chans, answered as oks allows.
ChanSetEnabled(chans, oks) ==
    \E c \in chans, val \in BOOLEAN, ok \in oks :
        /\ status' = [status EXCEPT ![c].enabled = val]
        /\ TransmitAnswered(<< <<ChanCmd(c, IF val THEN "S_ON" ELSE "S_OF", NoArg)>> >>, ok)
        /\ lastOp' = Op("set_enabled", <<c, val, ok>>, FALSE)
        /\ ChannelUnchanged
        /\ UNCHANGED framerVars

\* chan.polarity = val
ChanSetPolarity(chans, oks) ==
    \E c \in chans, val \in PolarityInputs, ok \in oks :
        /\ IF PolarityRejected(val)
           THEN /\ status' = status
                /\ sent' = <<>>
                /\ dev' = dev
                /\ lastOp' = Op("set_polarity", <<c, val, ok>>, TRUE)
           ELSE /\ status' = [status EXCEPT ![c].polarity = ActiveHigh(val)]
                /\ TransmitAnswered(
                      << <<ChanCmd(c, IF ActiveHigh(val) THEN "S_PO" ELSE "S_NE",
                                   NoArg)>> >>, ok)
                /\ lastOp' = Op("set_polarity", <<c, val, ok>>, FALSE)
        /\ ChannelUnchanged
        /\ UNCHANGED framerVars

\* A delay setter that stores the value once the device has accepted it.
ChanSetDelay_OnAck(chans, vals, oks) ==
    \E c \in chans, val \in vals, ok \in oks :
        /\ status' = IF ok THEN [status EXCEPT ![c].delay = Bare(val)] ELSE status
        /\ TransmitAnswered(<< <<ChanCmd(c, "D", IntArg(val))>> >>, ok)
        /\ lastOp' = Op("set_delay", <<c, val, ok>>, FALSE)
        /\ ChannelUnchanged
        /\ UNCHANGED framerVars

\* chan.delay = val, val in nanoseconds
ChanSetDelay(chans, vals, oks) ==
    \E c \in chans, val \in vals, ok \in oks :
        /\ status' = [status EXCEPT ![c].delay = Bare(val)]
        /\ TransmitAnswered(<< <<ChanCmd(c, "D", IntArg(val))>> >>, ok)
        /\ lastOp' = Op("set_delay", <<c, val, ok>>, FALSE)
        /\ ChannelUnchanged
        /\ UNCHANGED framerVars

\* chan.width = val, val in nanoseconds
ChanSetWidth(chans, vals, oks) ==
    \E c \in chans, val \in vals, ok \in oks :
        /\ status' = [status EXCEPT ![c].width = Bare(val)]
        /\ TransmitAnswered(<< <<ChanCmd(c, "W", IntArg(val))>> >>, ok)
        /\ lastOp' = Op("set_width", <<c, val, ok>>, FALSE)
        /\ ChannelUnchanged
        /\ UNCHANGED framerVars

\* The setters on a device that accepts every write.
SetEnabled == ChanSetEnabled(ChanInputs, {TRUE})

SetPolarity == ChanSetPolarity(ChanInputs, {TRUE})

SetDelay == ChanSetDelay(ChanInputs, DelayInputs, {TRUE})

SetWidth == ChanSetWidth(ChanInputs, WidthInputs, {TRUE})

\* Whether a cached time is a bare number, not a quantity.
IsBare(t) == t.unit = ""

\* The train_spacing setter: the channels that take part in the minimum
\* spacing, those with chan.delay >= 20 ns and chan.enabled, when every
\* cached delay is a quantity.
IncludedChannels_AnyDelay(st) == {c \in Channels : st[c].enabled}

IncludedChannels(st) == {c \in Channels : st[c].delay.ns >= 20 /\ st[c].enabled}

SetMax(S) == CHOOSE x \in S : \A y \in S : y <= x

SetMin(S) == CHOOSE x \in S : \A y \in S : x <= y

\* max(fall_times) - min(rise_times) + 80 ns, for a non-empty set of
\* included channels.
MinSpacing(st) ==
    LET rise_times == {st[c].delay.ns : c \in IncludedChannels(st)}
        fall_times == {st[c].delay.ns + st[c].width.ns : c \in IncludedChannels(st)}
    IN  SetMax(fall_times) - SetMin(rise_times) + 80

\* Whether the unit registry compares a quantity with the bare number 0:
\* its later versions do, the earlier ones raise as for any bare number.
\* The repository names no version.
ZeroComparisons == BOOLEAN

\* The train_spacing setter: whether its loop over the channels raises.  The
\* comparison chan.delay >= 20 * ureg.ns is made for every channel, enabled
\* or not, and raises ValueError when the cached delay is a bare number,
\* unless it is 0 and the registry compares with zero (the comparison is
\* then False).  The sum chan.delay + chan.width of an included channel
\* raises DimensionalityError when the cached width is a bare number other
\* than 0; a bare 0 is added without a unit check.
MixedUnits(st, lenient) ==
    \/ \E c \in Channels : IsBare(st[c].delay) /\ (st[c].delay.ns # 0 \/ ~lenient)
    \/ \E c \in IncludedChannels(st) : IsBare(st[c].width) /\ st[c].width.ns # 0

\* train_spacing = val, for a val of vals, each a quantity.  The loop over
\* the channels may raise, and max() of the empty list raises ValueError,
\* before anything is stored or written.
TrainSpacingSet(vals) ==
    \E val \in vals, lenient \in ZeroComparisons :
        /\ IF MixedUnits(status, lenient) \/ IncludedChannels(status) = {}
           THEN /\ train_space' = train_space
                /\ sent' = <<>>
                /\ dev' = dev
                /\ lastOp' = Op("set_spacing", <<val.q, val.r>>, TRUE)
           ELSE LET m == TimeOver20(TimeMax(val, NsTime(MinSpacing(status))))
                IN  /\ train_space' = m
                    /\ Transmit(<< <<Cmd("TS", FloatArg(m))>> >>)
                    /\ lastOp' = Op("set_spacing", <<val.q, val.r>>, FALSE)
        /\ UNCHANGED <<frame_first, frame_last, frame_loops, train_count,
                       freq, status, frames, liveAtSave>>
        /\ UNCHANGED framerVars

SetTrainSpacing == TrainSpacingSet(SpacingInputs)

\* The train_spacing setter given short spacings only: the device's TS
\* register stays small enough for the read-back of a later construction,
\* int(TS) * 20, to be computed in the integers of the model checker.
SetShortSpacing == TrainSpacingSet(ShortSpacings)

\* The train_spacing getter on the stored magnitude m: m * 20, a time in
\* nanoseconds.
TrainSpacingGet(m) == Time(m.whole, m.frac20)

\* The setters on a device that may refuse a write.
TrySetEnabled == ChanSetEnabled(ChanInputs, BOOLEAN)

TrySetPolarity == ChanSetPolarity(ChanInputs, BOOLEAN)

TrySetDelay == ChanSetDelay(ChanInputs, DelayInputs, BOOLEAN)

TrySetWidth == ChanSetWidth(ChanInputs, WidthInputs, BOOLEAN)

\* The setters of channel A given zero or non-zero times.
SpacingSetDelay == ChanSetDelay(ChanInputs, ZeroDelays, {TRUE})

SpacingSetWidth == ChanSetWidth(ChanInputs, ZeroWidths, {TRUE})

\* The channel setters of a pulse-train set-up.
TrainSetEnabled == ChanSetEnabled(TrainChans, {TRUE})

TrainSetDelay ==
    \/ ChanSetDelay({"A"}, TrainDelaysA, {TRUE})
    \/ ChanSetDelay({"B"}, TrainDelaysB, {TRUE})

TrainSetWidth == ChanSetWidth(TrainChans, TrainWidths, {TRUE})

-----------------------------------------------------------------------------
(* Specifications.  The framer, the frame registers and frame map, the     *)
(* channel caches, the counters, the pulse train, the timing cycle, the    *)
(* frame loop and construction are separate parts of the state: each run   *)
(* takes the operations that read or write its part.                       *)

\* The frame sequencer: the frame registers, their mirrors and the frame map.
Next ==
    \/ Connect
    \/ SetFrameFirst
    \/ SetFrameLast
    \/ FrameSave
    \/ FrameSaveAuto
    \/ FrameClear

Spec == Init /\ [][Next]_vars

\* The framer: successive write calls on one port.
NextFramer ==
    \/ FramerWrite
    \/ FramerReturn

SpecFramer == Init /\ [][NextFramer]_vars

\* The framer called with any arguments.
NextFramerAny ==
    \/ FramerWriteAny
    \/ FramerReturn

SpecFramerAny == Init /\ [][NextFramerAny]_vars

\* The channel caches and the snapshots taken of them.
NextChannels ==
    \/ SetEnabled
    \/ SetPolarity
    \/ SetDelay
    \/ SetWidth
    \/ FrameSave
    \/ FrameSaveAuto
    \/ FrameClear

SpecChannels == Init /\ [][NextChannels]_vars

\* The loop count and the train count.
NextCounts ==
    \/ Connect
    \/ SetFrameLoops
    \/ SetTrainCount

SpecCounts == Init /\ [][NextCounts]_vars

\* The mirrors of the frame bounds next to the device's registers, on a
\* device whose settings may be saved to and recalled from nonvolatile
\* memory.
NextMirrors ==
    \/ Connect
    \/ SetFrameFirst
    \/ SetFrameLast
    \/ Save
    \/ Recall

SpecMirrors == Init /\ [][NextMirrors]_vars

\* The pulse train: two channels are set up and the train spacing is set.
\* The controller is constructed anew only while the device's TS register is
\* small enough for int(TS) * 20 to be computed in the integers of the model
\* checker.
NextTrain ==
    \/ dev.TS <= MaxReadTicks /\ Connect
    \/ TrainSetEnabled
    \/ TrainSetDelay
    \/ TrainSetWidth
    \/ SetTrainSpacing

SpecTrain == Init /\ [][NextTrain]_vars

\* The train spacing set and read, on a controller that may be constructed
\* anew on the device.
NextSpacing ==
    \/ Connect
    \/ SetEnabled
    \/ SpacingSetDelay
    \/ SpacingSetWidth
    \/ SetShortSpacing

SpecSpacing == Init /\ [][NextSpacing]_vars

\* The calls that validate their argument before they write.
NextValidation ==
    \/ SetFrameLoops
    \/ SetTrainCount
    \/ FrameSave
    \/ SetAutoinstall
    \/ SetPolarity

SpecValidation == Init /\ [][NextValidation]_vars

\* The timing cycle and the install mode.
NextClock ==
    \/ SetFrequency
    \/ SetPeriod
    \/ SetAutoinstall

SpecClock == Init /\ [][NextClock]_vars

\* Construction on a device whose frame registers and channels earlier
\* calls have written (SpecCounts constructs on a written train count).
NextConnect ==
    \/ Connect
    \/ SetFrameFirst
    \/ SetFrameLast
    \/ SetFrameLoops
    \/ SetEnabled

SpecConnect == Init /\ [][NextConnect]_vars

\* The channel setters, each write accepted or refused by the device.
NextSetters ==
    \/ TryConnect
    \/ TrySetEnabled
    \/ TrySetPolarity
    \/ TrySetDelay
    \/ TrySetWidth

SpecSetters == Init /\ [][NextSetters]_vars

\* The frame loop: frames are saved, the loop count is set, the frames are
\* started and the program polls until frame_looping() returns False, as
\* self_test does; the device ends a finite loop by itself.
NextLooping ==
    \/ ~InPollLoop /\ FrameSaveAuto
    \/ ~InPollLoop /\ SetFrameLoops
    \/ ~InPollLoop /\ FrameStop
    \/ ~InPollLoop /\ FrameStart
    \/ FrameLooping
    \/ DeviceFinish

SpecLooping ==
    Init /\ [][NextLooping]_vars /\ WF_vars(FrameLooping) /\ WF_vars(DeviceFinish)

-----------------------------------------------------------------------------
(* The framer.                                                             *)

HasByte(str, b) == \E j \in DOMAIN str : str[j] = b

\* C1: a write of K >= 1 commands, answered with K bodies that hold no ';',
\* each followed by ';', then CR LF, returns exactly K strings, the i-th
\* equal to the i-th body: no element holds the delimiter, and none holds an
\* end-marker byte that its body does not hold.
C1_WriteReturnsBodies ==
    call.made =>
        /\ call.returned
        /\ Len(call.responses) = Len(call.commands)
        /\ \A i \in 1..Len(call.commands) :
              /\ call.responses[i] = call.bodies[i]
              /\ ~HasByte(call.responses[i], SEMI)
              /\ \A b \in {CR, LF} :
                    HasByte(call.responses[i], b) => HasByte(call.bodies[i], b)

\* A call with two commands returned two different non-empty bodies.
C1_Witness ==
    /\ call.made
    /\ call.returned
    /\ Len(call.commands) = 2
    /\ call.bodies = << <<"a", "a">>, <<"a">> >>
    /\ call.responses = << <<"a", "a">>, <<"a">> >>

\* C2: every call of a sequence of calls with well-formed replies returns
\* having consumed exactly its own reply, the two end-marker bytes included
\* and not a byte more: nothing is left in the input buffer, and the first
\* response of the call is the first body of its own reply.
C2_CallConsumesOwnReply ==
    call.made =>
        /\ call.returned
        /\ call.consumed = Len(DeviceReply(call.bodies))
        /\ wire = <<>>
        /\ call.responses[1] = call.bodies[1]

\* A call made after an earlier one returned the first body of its reply.
C2_Witness ==
    /\ call.made
    /\ call.prior
    /\ call.returned
    /\ call.bodies[1] = <<"a">>
    /\ call.responses[1] = <<"a">>
    /\ wire = <<>>

-----------------------------------------------------------------------------
(* The frame sequencer.                                                    *)

\* C3: the local mirrors agree with the device registers: frame_first reads
\* as FA, frame_last as FB, the stored loop register is FC and the stored
\* train-count register is TC.
C3_MirrorsAgree ==
    /\ frame_first = dev.FA
    /\ frame_last = dev.FB
    /\ frame_loops = dev.FC
    /\ train_count = dev.TC

\* C4: the snapshot frames[i] reads as the settings that were live when it
\* was saved, whatever channel setters were called since, and two frames
\* saved with different live settings read as different snapshots.
C4_SnapshotKeepsSavedSettings ==
    /\ \A i \in DOMAIN frames : FrameSnapshot(i) = liveAtSave[i]
    /\ \A i, j \in DOMAIN frames :
          liveAtSave[i] # liveAtSave[j] => FrameSnapshot(i) # FrameSnapshot(j)

\* C5: after frame_save() with the frame number omitted, the snapshot is
\* stored at n = first + number of frames before the call, the device has
\* received the last-frame write for n and then the store command for n, and
\* frame_last reads as n.
C5_AutoSaveExtendsLast ==
    (lastOp.op = "save_auto" /\ ~lastOp.raised) =>
        LET n == lastOp.preFirst + lastOp.preCount
        IN  /\ n \in DOMAIN frames
            /\ sent = << <<Cmd("FB", IntArg(n))>>, <<Cmd("FR", IntArg(n))>> >>
            /\ dev.FB = n
            /\ frame_last = n

\* C6: with more than one frame saved, frame_last > frame_first.
C6_LastAfterFirst == FrameCount > 1 => frame_last > frame_first

\* C7: frame_last = f with f <= frame_first raises and transmits nothing when
\* two or more frames are saved; with exactly one frame saved,
\* frame_last = frame_first is accepted and transmits the FB write.  first is
\* the value the frame_first getter returns.
C7_SetLastRejection ==
    lastOp.op = "set_last" =>
        LET f == lastOp.arg[1]
        IN  /\ (f <= lastOp.preFirst /\ lastOp.preCount >= 2) =>
                  (lastOp.raised /\ sent = <<>>)
            /\ (f = lastOp.preFirst /\ lastOp.preCount = 1) =>
                  (~lastOp.raised /\ sent = << <<Cmd("FB", IntArg(f))>> >>)

\* frame_last = frame_first was rejected with two frames saved.
C7_Witness ==
    /\ lastOp.op = "set_last"
    /\ lastOp.arg[1] = lastOp.preFirst
    /\ lastOp.preCount = 2
    /\ lastOp.raised
    /\ sent = <<>>

\* C8: every frame number in the local frame map lies in [0, FRAME_MAX_NUM).
C8_FrameIndexInRange ==
    \A i \in DOMAIN frames : 0 <= i /\ i < FRAME_MAX_NUM

-----------------------------------------------------------------------------
(* The loop count and the train count.                                     *)

\* C9: for n in 0 .. FRAME_MAX_LOOPS+1, frame_loops = n is accepted, the FC
\* command carries FRAME_FOREVER for n = 0 and n-1 otherwise, a read of
\* frame_loops then returns n, and no two accepted values share a register
\* value.
C9_LoopCountRoundTrip ==
    /\ (lastOp.op = "set_loops" /\ lastOp.arg[1] \in 0..(FRAME_MAX_LOOPS + 1)) =>
          LET n == lastOp.arg[1]
              reg == IF n = 0 THEN FRAME_FOREVER ELSE n - 1
          IN  /\ ~lastOp.raised
              /\ sent = << <<Cmd("FC", IntArg(reg))>> >>
              /\ FrameLoopsGet(frame_loops) = n
    /\ \A m, n \in LoopInputs :
          (LoopsAccepted(m) /\ LoopsAccepted(n) /\ m # n) =>
              LoopsRegister(m) # LoopsRegister(n)

\* The largest loop count, FRAME_MAX_LOOPS+1, was set and reads back.
C9_Witness ==
    /\ lastOp.op = "set_loops"
    /\ lastOp.arg[1] = FRAME_MAX_LOOPS + 1
    /\ ~lastOp.raised
    /\ frame_loops = FRAME_MAX_LOOPS
    /\ FrameLoopsGet(frame_loops) = FRAME_MAX_LOOPS + 1

\* C10: for count in [1, 2^32], train_count = count is accepted, the TC
\* command carries count-1, and a read of train_count then returns count.
C10_TrainCountRoundTrip ==
    (/\ lastOp.op = "set_count"
     /\ ~BigLt(Big(lastOp.arg[1], lastOp.arg[2]), Big(0, 1))
     /\ ~BigLt(Big(BigBase, 0), Big(lastOp.arg[1], lastOp.arg[2]))) =>
        LET count == Big(lastOp.arg[1], lastOp.arg[2])
        IN  /\ ~lastOp.raised
            /\ sent = << <<Cmd("TC", BigArg(BigPred(count)))>> >>
            /\ TrainCountGet(train_count) = count

\* The largest train count, 2^32, was set and reads back.
C10_Witness ==
    /\ lastOp.op = "set_count"
    /\ lastOp.arg = <<BigBase, 0>>
    /\ ~lastOp.raised
    /\ train_count = Big(BigBase - 1, BigBase - 1)
    /\ TrainCountGet(train_count) = Big(BigBase, 0)

-----------------------------------------------------------------------------
(* The pulse train spacing.                                                *)

\* C11: a train spacing set to r while at least one channel is included is
\* stored as min(max(r, min_spacing), 10 s), and the TS command carries the
\* tick count of that spacing.
C11_SpacingClamped ==
    (lastOp.op = "set_spacing" /\ ~lastOp.raised) =>
        LET r == Time(lastOp.arg[1], lastOp.arg[2])
            eff == TimeMin(TimeMax(r, NsTime(MinSpacing(status))), TRAIN_MAX_SPACING)
        IN  /\ train_space = TimeOver20(eff)
            /\ sent = << <<Cmd("TS", FloatArg(TimeOver20(eff)))>> >>

\* C12: a train spacing set while no channel is both enabled and delayed by
\* 20 ns or more raises, transmits nothing and leaves the stored spacing and
\* the device as they were.
C12_NoIncludedChannelRejected ==
    [][(/\ lastOp'.op = "set_spacing"
        /\ \A c \in Channels : ~(status'[c].enabled /\ status'[c].delay.ns >= 20))
       => (/\ lastOp'.raised
           /\ sent' = <<>>
           /\ train_space' = train_space
           /\ dev' = dev)]_vars

\* An enabled channel whose delay, read from the device as 10 ns, is below
\* 20 ns does not count: with every cached delay a quantity and no channel
\* included, the call raised.
C12_Witness ==
    /\ lastOp.op = "set_spacing"
    /\ lastOp.raised
    /\ status["A"].enabled
    /\ status["A"].delay = Quantity(10)
    /\ \A c \in Channels : ~IsBare(status[c].delay)
    /\ sent = <<>>

-----------------------------------------------------------------------------
(* Local validation.                                                       *)

\* The last call of the step is one the controller is to reject: a loop
\* count below 0 or above FRAME_MAX_LOOPS + 1, a train count below 1 or
\* above 2^32, a save to a frame number outside [0, FRAME_MAX_NUM), an
\* autoinstall value outside 0/off, 1/install, 2/queue, a polarity string
\* outside po, pos, ne, neg (in any case).
C13_PolarityWords ==
    { <<{"p", "P"}, {"o", "O"}>>, <<{"p", "P"}, {"o", "O"}, {"s", "S"}>>,
      <<{"n", "N"}, {"e", "E"}>>, <<{"n", "N"}, {"e", "E"}, {"g", "G"}>> }

C13_Spells(s, w) == Len(s) = Len(w) /\ \A i \in DOMAIN w : s[i] \in w[i]

C13_Invalid(o) ==
    \/ o.op = "set_loops" /\ (o.arg[1] < 0 \/ o.arg[1] > FRAME_MAX_LOOPS + 1)
    \/ o.op = "set_count" /\ (\/ BigLt(Big(o.arg[1], o.arg[2]), Big(0, 1))
                              \/ BigLt(Big(BigBase, 0), Big(o.arg[1], o.arg[2])))
    \/ o.op = "save" /\ (o.arg[1] < 0 \/ o.arg[1] >= FRAME_MAX_NUM)
    \/ o.op = "set_autoinstall"
         /\ ~(\/ ~o.arg[1].isstr /\ o.arg[1].n \in {0, 1, 2}
              \/ o.arg[1].isstr /\ o.arg[1].s \in {"off", "install", "queue"})
    \/ o.op = "set_polarity"
         /\ o.arg[2].isstr
         /\ \A w \in C13_PolarityWords : ~C13_Spells(o.arg[2].s, w)

\* C13: a call rejected locally raises, transmits nothing and changes
\* nothing: every mirror, the channel caches, the frame map and the device
\* keep their values.
C13_RejectedCallChangesNothing ==
    [][C13_Invalid(lastOp')
       => (/\ lastOp'.raised
           /\ sent' = <<>>
           /\ dev' = dev
           /\ <<frame_first', frame_last', frame_loops', train_count',
                train_space', freq', status', frames'>>
              = <<frame_first, frame_last, frame_loops, train_count,
                  train_space, freq, status, frames>>)]_vars

\* A loop count of FRAME_MAX_LOOPS + 2 was refused after other loop and
\* train counts had been written.
C13_Witness ==
    /\ lastOp.op = "set_loops"
    /\ lastOp.arg[1] = FRAME_MAX_LOOPS + 2
    /\ lastOp.raised
    /\ frame_loops = 2
    /\ dev.FC = 2
    /\ dev.AU = 2
    /\ sent = <<>>

-----------------------------------------------------------------------------
(* The arguments of write.                                                 *)

\* C14: write() with no command is rejected with an error: nothing is
\* transmitted and no byte is read.
C14_EmptyWriteRejected ==
    (call.made /\ call.commands = <<>>) =>
        /\ call.raised
        /\ call.frame = <<>>
        /\ call.consumed = 0

\* C15: write() given a command that holds the delimiter is rejected before
\* any byte is transmitted, so a transmitted frame of K commands holds K
\* delimiters and the device produces as many replies as the reader waits
\* for.
C15_DelimiterRejected ==
    (call.made /\ Len(call.commands) >= 1) =>
        /\ (\E i \in DOMAIN call.commands : HasByte(call.commands[i], SEMI))
              => (call.raised /\ call.frame = <<>>)
        /\ call.frame # <<>>
              => (/\ CountSemi(call.frame) = Len(call.commands)
                  /\ Len(call.bodies) = Len(call.commands))

-----------------------------------------------------------------------------
(* The timing cycle.                                                       *)

\* C16: the cached frequency is above 0 and at most 16 MHz in every state;
\* a period below 62.5 ns, whose frequency is above 16 MHz, raises and
\* transmits nothing.
C16_FrequencyCeiling ==
    /\ freq.num > 0
    /\ \/ freq.num \div freq.den < StartupFrequency
       \/ freq.num \div freq.den = StartupFrequency /\ freq.num % freq.den = 0
    /\ (lastOp.op = "set_period" /\ 2 * lastOp.arg[1] < 125)
          => (lastOp.raised /\ sent = <<>>)

-----------------------------------------------------------------------------
(* The frame loop.                                                         *)

\* C17: frame_looping() returns False exactly when the device answers the
\* frame-state query with OFF or DONE, True for any other answer; after
\* frame_start() the polls return True until the device first reports a
\* terminal token and False from then on, and a program that polls until
\* False leaves its loop once the device has finished a finite loop count.
C17_LoopingUntilDone ==
    /\ [](lastOp.op = "looping" =>
            lastOp.arg[2] = (lastOp.arg[1] \notin {"OFF", "DONE"}))
    /\ [][(lastOp.op = "looping" /\ ~lastOp.arg[2] /\ lastOp'.op = "looping")
            => ~lastOp'.arg[2]]_vars
    /\ (InPollLoop /\ dev.FC # FRAME_FOREVER) ~> ~InPollLoop

\* Two frames saved, three loops asked for, the frames started: the poll
\* that follows the end of the loop returned False.
C17_Witness ==
    /\ lastOp.op = "looping"
    /\ lastOp.arg = <<"DONE", FALSE>>
    /\ FrameCount = 2
    /\ FrameLoopsGet(frame_loops) = 3
    /\ dev.FC = 2

-----------------------------------------------------------------------------
(* Clearing the frames.                                                    *)

\* C18: frame_clear() empties the local frame map, transmits exactly one
\* reset-frame-memory command and leaves the local first, last and loop
\* count as they were; the save with no frame number that follows it is
\* given the frame number first.
C18_ClearRestartsAtFirst ==
    [][/\ lastOp'.op = "clear"
          => (/\ frames' = <<>>
              /\ sent' = << <<Cmd("RZ", NoArg)>> >>
              /\ frame_first' = frame_first
              /\ frame_last' = frame_last
              /\ frame_loops' = frame_loops)
       /\ (lastOp.op = "clear" /\ lastOp'.op = "save_auto")
          => (/\ ~lastOp'.raised
              /\ lastOp'.arg = <<frame_first>>
              /\ DOMAIN frames' = {frame_first})]_vars

\* Two frames were saved from frame number 1 on and then cleared.
C18_Witness ==
    /\ lastOp.op = "clear"
    /\ lastOp.preCount = 2
    /\ frame_first = 1
    /\ frames = <<>>
    /\ dev.frames = <<>>

-----------------------------------------------------------------------------
(* The channel setters.                                                    *)

\* The one frame of one command a setter transmits.
C19_OneCommand(c, k, a) == << <<ChanCmd(c, k, a)>> >>

\* C19: a channel setter stores the new value in the channel's cache and
\* transmits exactly one command in one frame; when the device refuses the
\* write the cache holds the new value all the same, the device keeps its
\* own, and the channel's other three attributes and the other channels'
\* caches are unchanged.
C19_SetterWritesCacheAndOneCommand ==
    [][LET o == lastOp'
           c == o.arg[1]
           v == o.arg[2]
       IN  /\ o.op = "set_enabled"
              => (/\ status' = [status EXCEPT ![c].enabled = v]
                  /\ sent' = C19_OneCommand(c, IF v THEN "S_ON" ELSE "S_OF", NoArg))
           /\ (o.op = "set_polarity" /\ ~o.raised)
              => (/\ status' = [status EXCEPT ![c].polarity = status'[c].polarity]
                  /\ sent' = C19_OneCommand(
                        c, IF status'[c].polarity THEN "S_PO" ELSE "S_NE", NoArg))
           /\ o.op = "set_delay"
              => (/\ status' = [status EXCEPT ![c].delay = Bare(v)]
                  /\ sent' = C19_OneCommand(c, "D", <<v>>))
           /\ o.op = "set_width"
              => (/\ status' = [status EXCEPT ![c].width = Bare(v)]
                  /\ sent' = C19_OneCommand(c, "W", <<v>>))
           /\ (o.op \in {"set_enabled", "set_polarity", "set_delay", "set_width"}
               /\ ~o.arg[3])
              => dev' = dev]_vars

\* The device refused a delay that the cache now holds, after it had
\* accepted the channel's enabling.
C19_Witness ==
    /\ lastOp.op = "set_delay"
    /\ lastOp.arg = <<"A", 20, FALSE>>
    /\ status["A"].delay = Bare(20)
    /\ dev.chan["A"].delay = 0
    /\ status["A"].enabled
    /\ dev.chan["A"].enabled

-----------------------------------------------------------------------------
(* Construction.                                                           *)

\* The place of the frame that holds the one command q among the frames
\* sent, 0 when there is none.
C20_Place(q) ==
    IF \E i \in DOMAIN sent : sent[i] = <<q>>
    THEN CHOOSE i \in DOMAIN sent : sent[i] = <<q>>
    ELSE 0

\* C20: construction transmits verbose-echo off, autoinstall = install and
\* frequency = 16 MHz, then the creation query and the disable command of
\* each of the four channels, and only then the read-backs of first, last,
\* loop count, train count and train spacing, in this order; when it returns
\* the four cached enabled flags are false and every frame and train mirror
\* holds the value the device reported, which is still the device's value:
\* first is FA, last is FB, the loop register is FC, the train-count register
\* is TC and the spacing mirror is the tick count TS.
C20_ConstructionOrder ==
    lastOp.op = "connect" =>
        /\ sent[1] = <<Cmd("VE", <<0>>)>>
        /\ sent[2] = <<Cmd("AU", <<1>>)>>
        /\ sent[3][1] = Cmd("SY", <<16 * 1000 * 1000, 0>>)
        /\ \A c \in Channels :
              /\ 3 < C20_Place(ChanCmd(c, "S", NoArg))
              /\ C20_Place(ChanCmd(c, "S", NoArg)) < C20_Place(ChanCmd(c, "S_OF", NoArg))
              /\ C20_Place(ChanCmd(c, "S_OF", NoArg)) < C20_Place(Cmd("FA", NoArg))
        /\ C20_Place(Cmd("FA", NoArg)) < C20_Place(Cmd("FB", NoArg))
        /\ C20_Place(Cmd("FB", NoArg)) < C20_Place(Cmd("FC", NoArg))
        /\ C20_Place(Cmd("FC", NoArg)) < C20_Place(Cmd("TC", NoArg))
        /\ C20_Place(Cmd("TC", NoArg)) < C20_Place(Cmd("TS", NoArg))
        /\ \A c \in Channels : ~status[c].enabled /\ ~dev.chan[c].enabled
        /\ frame_first = dev.FA
        /\ frame_last = dev.FB
        /\ frame_loops = dev.FC
        /\ train_count = dev.TC
        /\ train_space = Mag(dev.TS, 0)
        /\ dev.AU = 1
        /\ dev.SY = <<16 * 1000 * 1000, 0>>

-----------------------------------------------------------------------------
(* The minimum spacing and the ticks of the train spacing.                 *)

\* The channels the claims count in: enabled and delayed by 20 ns or more.
C21_Counted == {c \in Channels : status[c].enabled /\ status[c].delay.ns >= 20}

\* The latest falling edge minus the earliest rising edge of the counted
\* channels, plus 80 ns.
C21_Expected ==
    LET lo == CHOOSE x \in {status[c].delay.ns : c \in C21_Counted} :
                 \A c \in C21_Counted : x <= status[c].delay.ns
        hi == CHOOSE x \in {status[c].delay.ns + status[c].width.ns : c \in C21_Counted} :
                 \A c \in C21_Counted : status[c].delay.ns + status[c].width.ns <= x
    IN  hi - lo + 80

\* C21: the minimum spacing the train_spacing setter uses is
\* max(delay + width) - min(delay) + 80 ns over exactly the channels that
\* are enabled and delayed by 20 ns or more: whenever such a channel exists,
\* a request of 100 ns, below any minimum, is stored as that minimum,
\* whatever the disabled channels and the enabled channels with a delay
\* below 20 ns hold.
C21_MinSpacingOverIncluded ==
    (lastOp.op = "set_spacing" /\ lastOp.arg = <<5, 0>> /\ C21_Counted # {}) =>
        /\ ~lastOp.raised
        /\ train_space = TimeOver20(NsTime(C21_Expected))

\* C22: after a successful train-spacing set the value stored and sent in
\* the TS command is a whole number t of ticks with t * 20 ns at least the
\* minimum spacing of the channel settings and at most 10 s, whether or not
\* the request is a multiple of 20 ns.  Stated for the requests of at most
\* 10 s, which the ceiling leaves as they are.
C22_WholeTicksInRange ==
    (/\ lastOp.op = "set_spacing"
     /\ ~lastOp.raised
     /\ ~TimeLt(TRAIN_MAX_SPACING, Time(lastOp.arg[1], lastOp.arg[2]))) =>
        /\ train_space.frac20 = 0
        /\ sent = << <<Cmd("TS", <<train_space.whole, 0>>)>> >>
        /\ ~TimeLt(Time(train_space.whole, 0), NsTime(C21_Expected))
        /\ ~TimeLt(TRAIN_MAX_SPACING, Time(train_space.whole, 0))

\* C23: reading train_spacing returns spacing_ticks * 20 ns, spacing_ticks
\* being the value last read from or written to the device's TS register:
\* after construction the TS read-back times 20 ns, after a train-spacing
\* set the effective spacing that was set.
C23_ReadSpacing ==
    /\ lastOp.op = "connect"
          => TrainSpacingGet(train_space) = Time(dev.TS, 0)
    /\ (lastOp.op = "set_spacing" /\ ~lastOp.raised)
          => TrainSpacingGet(train_space)
               = TimeMax(Time(lastOp.arg[1], lastOp.arg[2]), NsTime(C21_Expected))

-----------------------------------------------------------------------------
(* Saving without a frame number.                                          *)

\* C24: frame_save() with the frame number omitted never overwrites a saved
\* frame: the number it assigns is not yet a key of the local frame map, so
\* the number of saved frames grows by exactly one.
C24_AutoSaveAddsFrame ==
    (lastOp.op = "save_auto" /\ ~lastOp.raised) => FrameCount = lastOp.preCount + 1

=============================================================================
